---------------------------- MODULE Spec2Model ----------------------------
(***************************************************************************)
(* Two view components of the web front-end:                               *)
(*   - PerformanceSummary (src/unnamed/part_000): keeps refreshInterval,   *)
(*     selectedDate and the URL query parameters in step, derives the      *)
(*     consumable time object, and offers filterData;                      *)
(*   - IngestTraces (src/web/src/components/ingestion/traces/Index.vue):   *)
(*     fetches and resets the organization passcode.                       *)
(* Three specifications share the variables: Spec (PerformanceSummary),    *)
(* SpecIngest (IngestTraces) and SpecFilter (filterData on bounded input). *)
(***************************************************************************)
EXTENDS Integers, Sequences, FiniteSets, TLC

VARIABLES
    \* ---- PerformanceSummary
    refreshInterval,              \* ref(0): seconds
    selectedDate,                 \* ref(): the time-range selection
    currentDurationSelectionObj,  \* ref({})
    currentTimeObj,               \* ref({})
    query,                        \* route.query: a map from the keys present
    active,                       \* the kept-alive instance is on screen
    dirty,                        \* refs changed since the watchers last ran
    assigned,                     \* refs the pending activation hook assigned
    tickPending,                  \* the activation hook awaits nextTick()
    resizes,                      \* resize events of the latest activation
    lastReplace,                  \* argument of the latest router.replace
    issued,                       \* router.replace calls of the latest flush
    historyLen,                   \* entries this component pushed
    now,                          \* the clock
    \* ---- IngestTraces
    selectedOrg,                  \* store.state.selectedOrganization.identifier
    currentOrgIdentifier,         \* ref(selectedOrg at setup)
    passcode,                     \* store: the organization whose passcode is stored
    routeName,                    \* router.currentRoute.value.name
    mounted,
    pending,                      \* remote calls not yet handled
    notifs,                       \* q.notify calls, in order
    dispatched,                   \* store.dispatch("setOrganizationPasscode") calls
    sent,                         \* remote calls issued so far
    delivered,                    \* the response handled last
    \* ---- filterData
    rows, terms, filtered, done

perfVars == <<refreshInterval, selectedDate, currentDurationSelectionObj,
              currentTimeObj, query, active, dirty, assigned, tickPending,
              resizes, lastReplace, issued, historyLen, now>>
ingestVars == <<selectedOrg, currentOrgIdentifier, passcode, routeName,
                mounted, pending, notifs, dispatched, sent, delivered>>
filterVars == <<rows, terms, filtered, done>>
vars == <<perfVars, ingestVars, filterVars>>

(***************************************************************************)
(* Bounds of the model.                                                    *)
(***************************************************************************)
MaxRows == 2
MaxNameLen == 2
MaxTermLen == 2
MaxNow == 1
MaxHistory == 1
MaxSent == 3

(***************************************************************************)
(* filterData                                                              *)
(***************************************************************************)
Alphabet == {"a", "A", "b"}

\* String.prototype.toLowerCase, one character
LowerChar(c) == IF c = "A" THEN "a" ELSE c

toLowerCase(s) == [i \in DOMAIN s |-> LowerChar(s[i])]

\* String.prototype.includes
includes(s, t) ==
    \E i \in 0..(Len(s) - Len(t)) : SubSeq(s, i + 1, i + Len(t)) = t

RECURSIVE FilterLoop(_, _, _, _)
FilterLoop(rs, lowered, i, acc) ==
    IF i > Len(rs) THEN acc
    ELSE FilterLoop(rs, lowered, i + 1,
                    IF includes(toLowerCase(rs[i].name), lowered)
                    THEN Append(acc, rs[i]) ELSE acc)

\* the mutant: the query is not lower-cased
filterData_RawTerms(rs, ts) == FilterLoop(rs, ts, 1, <<>>)

filterData(rs, ts) == FilterLoop(rs, toLowerCase(ts), 1, <<>>)

SeqsUpTo(S, n) == UNION {[1..k -> S] : k \in 0..n}

Names == SeqsUpTo(Alphabet, MaxNameLen)
Rows == [name : Names]

InitFilter ==
    /\ rows \in SeqsUpTo(Rows, MaxRows)
    /\ terms \in SeqsUpTo(Alphabet, MaxTermLen)
    /\ filtered = <<>>
    /\ done = FALSE

IdleFilter ==
    /\ rows = <<>>
    /\ terms = <<>>
    /\ filtered = <<>>
    /\ done = FALSE

FilterData ==
    /\ ~done
    /\ filtered' = filterData(rows, terms)
    /\ done' = TRUE
    /\ UNCHANGED <<rows, terms>>
    /\ UNCHANGED <<perfVars, ingestVars>>

(***************************************************************************)
(* PerformanceSummary: values                                              *)
(***************************************************************************)
\* Reading a key the route's query does not hold gives undefined.
Undef == "<undefined>"
\* A query value of the refresh, period, from and to keys: <<number, unit>>.
UndefTok == <<0, "<undefined>">>
EmptyTok == <<0, "">>            \* ?refresh=   (the empty string)
OffTok == <<0, "Off">>
BadTok == <<0, "bad">>           \* a string that is no duration

\* JavaScript truthiness of a query value: undefined and "" are falsy.
Truthy(tok) == tok # UndefTok /\ tok # EmptyTok

\* selectedDate = ref(): undefined until a selection is assigned
UndefinedSel == [tab |-> "undefined", value |-> 0, from |-> 0, to |-> 0]
\* currentDurationSelectionObj = ref({})
EmptyObj == [tab |-> "empty", value |-> 0, from |-> 0, to |-> 0]
Relative(v) == [tab |-> "relative", value |-> v, from |-> 0, to |-> 0]
Absolute(f, t) == [tab |-> "absolute", value |-> 0, from |-> f, to |-> t]
\* currentTimeObj = ref({})
EmptyTime == [kind |-> "empty", start_time |-> 0, end_time |-> 0]

\* @/utils/date parseDuration: seconds of a label; 0 for anything else
parseDuration(tok) ==
    CASE tok[2] = "s" -> tok[1]
      [] tok[2] = "m" -> tok[1] * 60
      [] OTHER -> 0

\* @/utils/date generateDurationLabel: the largest unit dividing the seconds
generateDurationLabel(r) ==
    IF r > 0 /\ r % 60 = 0 THEN <<r \div 60, "m">>
    ELSE IF r > 0 THEN <<r, "s">>
    ELSE OffTok

\* the selection a malformed period falls back to
DefaultSelection == Relative(15)

\* @/utils/date getDurationObjectFromParams
getDurationObjectFromParams(params) ==
    IF Truthy(params.period)
    THEN IF params.period[2] = "m" THEN Relative(params.period[1])
         ELSE DefaultSelection
    ELSE Absolute(params.from[1], params.to[1])

\* @/utils/date getQueryParamsForDuration: the keys it returns, the others
\* undefined
getQueryParamsForDuration(sel) ==
    CASE sel.tab = "relative" ->
           [period |-> <<sel.value, "m">>, from |-> UndefTok, to |-> UndefTok]
      [] sel.tab = "absolute" ->
           [period |-> UndefTok, from |-> <<sel.from, "ts">>,
            to |-> <<sel.to, "ts">>]
      [] OTHER -> [period |-> UndefTok, from |-> UndefTok, to |-> UndefTok]

\* @/utils/commons getConsumableDateTime at clock value t
getConsumableDateTime(sel, t) ==
    CASE sel.tab = "relative" ->
           [kind |-> "range", start_time |-> t - sel.value, end_time |-> t]
      [] sel.tab = "absolute" ->
           [kind |-> "range", start_time |-> sel.from, end_time |-> sel.to]
      [] OTHER -> EmptyTime

NoQuery ==
    [org_identifier |-> Undef, dashboard |-> Undef, folder |-> Undef,
     refresh |-> UndefTok, period |-> UndefTok, from |-> UndefTok,
     to |-> UndefTok]

\* the URLs the page is entered with
Params ==
    [org_identifier : {Undef}, dashboard : {"d1"},
     folder : {Undef, "f1"},
     refresh : {UndefTok, EmptyTok, <<30, "s">>, BadTok},
     period : {UndefTok, EmptyTok, <<15, "m">>, BadTok},
     from : {UndefTok, <<1, "ts">>},
     to : {UndefTok, <<2, "ts">>}]

Durations == {0, 30, 60}
Selections == {Relative(15), Relative(30), Absolute(1, 2)}

(***************************************************************************)
(* PerformanceSummary: the hooks and watchers                              *)
(***************************************************************************)
\* the store's organization, which PerformanceSummary only reads
StoreOrg == "orgA"

\* line 149: if (params.refresh)
RefreshGiven_Present(params) == params.refresh # UndefTok

RefreshGiven(params) == Truthy(params.refresh)

\* line 153: if (params.period || (params.to && params.from))
DateGiven(params) ==
    Truthy(params.period) \/ (Truthy(params.to) /\ Truthy(params.from))

\* the query object the watcher hands to router.replace (lines 165-171)
StateQuery_NoRefresh(r, sel, q) ==
    [org_identifier |-> StoreOrg, dashboard |-> q.dashboard,
     folder |-> q.folder, refresh |-> UndefTok,
     period |-> getQueryParamsForDuration(sel).period,
     from |-> getQueryParamsForDuration(sel).from,
     to |-> getQueryParamsForDuration(sel).to]

StateQuery(r, sel, q) ==
    [org_identifier |-> StoreOrg, dashboard |-> q.dashboard,
     folder |-> q.folder, refresh |-> generateDurationLabel(r),
     period |-> getQueryParamsForDuration(sel).period,
     from |-> getQueryParamsForDuration(sel).from,
     to |-> getQueryParamsForDuration(sel).to]

Idle == dirty = {} /\ ~tickPending

InitPerf ==
    /\ refreshInterval = 0
    /\ selectedDate = UndefinedSel
    /\ currentDurationSelectionObj = EmptyObj
    /\ currentTimeObj = EmptyTime
    /\ query = NoQuery
    /\ active = FALSE
    /\ dirty = {}
    /\ assigned = {}
    /\ tickPending = FALSE
    /\ resizes = 0
    /\ lastReplace = NoQuery
    /\ issued = 0
    /\ historyLen = 0
    /\ now = 0

\* The second onActivated hook up to its await (lines 146-158), run with the
\* refs holding r0 and s0 and the route's query being params.  A selection
\* read from the parameters is a new object, so the watchers see a change
\* whatever it holds; a number is a change when it differs.
HookBody(params, r0, s0) ==
    /\ query' = params
    /\ refreshInterval' =
          IF RefreshGiven(params) THEN parseDuration(params.refresh) ELSE r0
    /\ selectedDate' =
          IF DateGiven(params) THEN getDurationObjectFromParams(params)
          ELSE s0
    /\ assigned' = {k \in {"refreshInterval"} : RefreshGiven(params)}
                   \cup {k \in {"selectedDate"} : DateGiven(params)}
    /\ dirty' = {k \in {"refreshInterval"} : refreshInterval' # r0}
                \cup {k \in {"selectedDate"} : DateGiven(params)}
    /\ tickPending' = TRUE
    /\ resizes' = 0
    /\ active' = TRUE

\* The kept-alive instance is shown again, the URL being params.  (The first
\* onActivated hook, lines 73-75, awaits loadDashboard and touches none of
\* the refs.)
Activate(params) ==
    /\ ~active /\ Idle
    /\ HookBody(params, refreshInterval, selectedDate)
    /\ UNCHANGED <<currentDurationSelectionObj, currentTimeObj, lastReplace,
                   issued, historyLen, now>>
    /\ UNCHANGED <<ingestVars, filterVars>>

\* the page is loaded anew with the URL as it stands: setup() (lines 60-72)
\* and then the hook
Reload ==
    /\ active /\ Idle
    /\ HookBody(query, 0, UndefinedSel)
    /\ currentDurationSelectionObj' = EmptyObj
    /\ currentTimeObj' = EmptyTime
    /\ UNCHANGED <<lastReplace, issued, historyLen, now>>
    /\ UNCHANGED <<ingestVars, filterVars>>

\* a control bound to the exposed refreshInterval ref sets it
SetRefreshInterval(v) ==
    /\ active /\ Idle
    /\ refreshInterval' = v
    /\ dirty' = {k \in {"refreshInterval"} : v # refreshInterval}
    /\ UNCHANGED <<selectedDate, currentDurationSelectionObj, currentTimeObj,
                   query, active, assigned, tickPending, resizes, lastReplace,
                   issued, historyLen, now>>
    /\ UNCHANGED <<ingestVars, filterVars>>

\* the date picker sets the exposed selectedDate ref to a new object
SetSelectedDate(d) ==
    /\ active /\ Idle
    /\ selectedDate' = d
    /\ dirty' = {"selectedDate"}
    /\ UNCHANGED <<refreshInterval, currentDurationSelectionObj,
                   currentTimeObj, query, active, assigned, tickPending,
                   resizes, lastReplace, issued, historyLen, now>>
    /\ UNCHANGED <<ingestVars, filterVars>>

\* refreshData (lines 131-135)
RefreshData ==
    /\ active /\ Idle
    /\ currentTimeObj' = getConsumableDateTime(currentDurationSelectionObj, now)
    /\ UNCHANGED <<refreshInterval, selectedDate, currentDurationSelectionObj,
                   query, active, dirty, assigned, tickPending, resizes,
                   lastReplace, issued, historyLen, now>>
    /\ UNCHANGED <<ingestVars, filterVars>>

\* watch(selectedDate) (lines 137-143): the selection the consumable time is
\* computed from
WatchedSelection_Stale(sel, old) == old

WatchedSelection(sel, old) == sel

\* router.replace leaves the history as long as it is; router.push adds one
HistoryAfterReplace_Push(h) == h + 1

HistoryAfterReplace(h) == h

\* The scheduler runs the watchers whose sources changed: watch(selectedDate)
\* (lines 137-143) and watch([refreshInterval, selectedDate]) (lines 163-173),
\* the latter once however many of its sources changed.  The router drops the
\* keys whose value is undefined, which is how a key is absent here.
FlushWatchers ==
    /\ dirty # {}
    /\ IF "selectedDate" \in dirty
       THEN /\ currentDurationSelectionObj' =
                  WatchedSelection(selectedDate, currentDurationSelectionObj)
            /\ currentTimeObj' =
                  getConsumableDateTime(currentDurationSelectionObj', now)
       ELSE UNCHANGED <<currentDurationSelectionObj, currentTimeObj>>
    /\ lastReplace' = StateQuery(refreshInterval, selectedDate, query)
    /\ query' = lastReplace'
    /\ issued' = 1
    /\ historyLen' = HistoryAfterReplace(historyLen)
    /\ dirty' = {}
    /\ UNCHANGED <<refreshInterval, selectedDate, active, assigned,
                   tickPending, resizes, now>>
    /\ UNCHANGED <<ingestVars, filterVars>>

\* nextTick() resolves once the watchers have run; the hook dispatches resize
\* (lines 158-159)
ResizeTick ==
    /\ tickPending /\ dirty = {}
    /\ resizes' = resizes + 1
    /\ tickPending' = FALSE
    /\ assigned' = {}
    /\ UNCHANGED <<refreshInterval, selectedDate, currentDurationSelectionObj,
                   currentTimeObj, query, active, dirty, lastReplace, issued,
                   historyLen, now>>
    /\ UNCHANGED <<ingestVars, filterVars>>

\* route.query.folder ?? "default" (lines 115, 126)
FolderOrDefault(q) == IF q.folder = Undef THEN "default" ELSE q.folder

\* goBackToDashboardList (lines 110-118) and addPanelData (lines 121-129):
\* router.push to another page with the dashboard and the folder
PushTo(path) ==
    /\ active /\ Idle
    /\ historyLen < MaxHistory
    /\ historyLen' = historyLen + 1
    /\ query' = [NoQuery EXCEPT !.dashboard = query.dashboard,
                                !.folder = FolderOrDefault(query)]
    /\ active' = FALSE
    /\ UNCHANGED <<refreshInterval, selectedDate, currentDurationSelectionObj,
                   currentTimeObj, dirty, assigned, tickPending, resizes,
                   lastReplace, issued, now>>
    /\ UNCHANGED <<ingestVars, filterVars>>

GoBackToDashboardList == PushTo("/dashboards")

AddPanelData == PushTo("/dashboards/add_panel")

\* the user leaves the page by other means; keep-alive keeps the instance
Deactivate ==
    /\ active /\ Idle
    /\ active' = FALSE
    /\ UNCHANGED <<refreshInterval, selectedDate, currentDurationSelectionObj,
                   currentTimeObj, query, dirty, assigned, tickPending,
                   resizes, lastReplace, issued, historyLen, now>>
    /\ UNCHANGED <<ingestVars, filterVars>>

\* time passes
Tick ==
    /\ now < MaxNow
    /\ now' = now + 1
    /\ UNCHANGED <<refreshInterval, selectedDate, currentDurationSelectionObj,
                   currentTimeObj, query, active, dirty, assigned,
                   tickPending, resizes, lastReplace, issued, historyLen>>
    /\ UNCHANGED <<ingestVars, filterVars>>

(***************************************************************************)
(* IngestTraces                                                            *)
(***************************************************************************)
Orgs == {"orgA", "orgB"}
RouteNames == {"ingestTraces", "tracesOTLP", "metrics"}
\* the store holds no passcode yet
NoPasscode == "<none>"
NoDelivery == [op |-> "none", org |-> "none", res |-> "none"]

\* timeout of every q.notify of the component
NotifyTimeout == 5000

NotFoundNote ==
    [type |-> "negative", message |-> "API Key not found.",
     timeout |-> NotifyTimeout]
ResetNote ==
    [type |-> "positive", message |-> "Token reset successfully.",
     timeout |-> NotifyTimeout]
\* "Error while updating Token." + e.error
UpdateErrorNote ==
    [type |-> "negative", message |-> "Error while updating Token.",
     timeout |-> NotifyTimeout]

IdleIngest ==
    /\ selectedOrg = "orgA"
    /\ currentOrgIdentifier = "orgA"
    /\ passcode = NoPasscode
    /\ routeName = "tracesOTLP"
    /\ mounted = FALSE
    /\ pending = <<>>
    /\ notifs = <<>>
    /\ dispatched = 0
    /\ sent = 0
    /\ delivered = NoDelivery

\* setup() (lines 79-88): currentOrgIdentifier starts as the store's
\* organization
InitIngest ==
    /\ selectedOrg \in Orgs
    /\ currentOrgIdentifier = selectedOrg
    /\ passcode = NoPasscode
    /\ routeName \in RouteNames
    /\ mounted = FALSE
    /\ pending = <<>>
    /\ notifs = <<>>
    /\ dispatched = 0
    /\ sent = 0
    /\ delivered = NoDelivery

\* The remote call of getOrganizationPasscode (lines 114-115) or of
\* updatePasscode (lines 158-161): issued for the organization the store
\* holds at the time of the call.
Call(op, org) == Append(pending, [op |-> op, org |-> org])

\* onMounted (lines 90-111)
Mount ==
    /\ ~mounted
    /\ mounted' = TRUE
    /\ IF routeName \in {"tracesOTLP"}
       THEN UNCHANGED <<routeName, pending, sent>>
       ELSE IF routeName = "ingestTraces"
       THEN /\ routeName' = "tracesOTLP"
            /\ UNCHANGED <<pending, sent>>
       ELSE /\ sent < MaxSent
            /\ pending' = Call("get", selectedOrg)
            /\ sent' = sent + 1
            /\ UNCHANGED routeName
    /\ UNCHANGED <<selectedOrg, currentOrgIdentifier, passcode, notifs,
                   dispatched, delivered>>
    /\ UNCHANGED <<perfVars, filterVars>>

\* the q-route-tab "Open Telemetry" (lines 31-42)
OpenTelemetryTab ==
    /\ mounted
    /\ routeName # "tracesOTLP"
    /\ routeName' = "tracesOTLP"
    /\ UNCHANGED <<selectedOrg, currentOrgIdentifier, passcode, mounted,
                   pending, notifs, dispatched, sent, delivered>>
    /\ UNCHANGED <<perfVars, filterVars>>

\* The store's organization changes and the selectedOrg watcher runs
\* (lines 217-233).
SwitchOrg(o) ==
    /\ mounted
    /\ o # selectedOrg
    /\ selectedOrg' = o
    /\ IF routeName \in {"ingestTraces", "tracesOTLP"}
       THEN /\ sent < MaxSent
            /\ pending' = Call("get", o)
            /\ sent' = sent + 1
       ELSE UNCHANGED <<pending, sent>>
    /\ UNCHANGED <<currentOrgIdentifier, passcode, routeName, mounted,
                   notifs, dispatched, delivered>>
    /\ UNCHANGED <<perfVars, filterVars>>

\* updatePasscode up to the remote call (lines 157-161)
UpdatePasscode ==
    /\ mounted
    /\ sent < MaxSent
    /\ pending' = Call("update", selectedOrg)
    /\ sent' = sent + 1
    /\ UNCHANGED <<selectedOrg, currentOrgIdentifier, passcode, routeName,
                   mounted, notifs, dispatched, delivered>>
    /\ UNCHANGED <<perfVars, filterVars>>

RemoveAt(q, i) == SubSeq(q, 1, i - 1) \o SubSeq(q, i + 1, Len(q))

\* res.data.data.token == "" (lines 117, 163)
TokenEmpty_Never(res) == FALSE

TokenEmpty(res) == res = "empty"

\* The organization the handlers record with the passcode they store: the
\* store's organization when the response is handled (lines 125-126,
\* 176-177).
RecordedOrg(req) == selectedOrg

\* The .then handlers (lines 116-128, 162-179): req is the call answered, res
\* the answer, "ok" (a token and the passcode of req.org) or "empty".
Fulfilled(req, res) ==
    IF TokenEmpty(res)
    THEN /\ notifs' = Append(notifs, NotFoundNote)
         /\ UNCHANGED <<passcode, currentOrgIdentifier, dispatched>>
    ELSE /\ notifs' = IF req.op = "update" THEN Append(notifs, ResetNote)
                      ELSE notifs
         /\ dispatched' = dispatched + 1
         /\ passcode' = req.org
         /\ currentOrgIdentifier' = RecordedOrg(req)

\* A rejection: updatePasscode has a .catch (lines 180-186),
\* getOrganizationPasscode has none.
Rejected(req) ==
    /\ notifs' = IF req.op = "update" THEN Append(notifs, UpdateErrorNote)
                 ELSE notifs
    /\ UNCHANGED <<passcode, currentOrgIdentifier, dispatched>>

\* The i-th call in flight settles and its handler runs.  The calls settle
\* in any order.
Settle(i, res) ==
    /\ i \in DOMAIN pending
    /\ pending' = RemoveAt(pending, i)
    /\ delivered' = [op |-> pending[i].op, org |-> pending[i].org, res |-> res]
    /\ IF res = "rejected" THEN Rejected(pending[i])
       ELSE Fulfilled(pending[i], res)
    /\ UNCHANGED <<selectedOrg, routeName, mounted, sent>>
    /\ UNCHANGED <<perfVars, filterVars>>

(***************************************************************************)
(* The specifications                                                      *)
(***************************************************************************)
Init == InitPerf /\ IdleIngest /\ IdleFilter

Next ==
    \/ \E params \in Params : Activate(params)
    \/ Reload
    \/ \E v \in Durations : SetRefreshInterval(v)
    \/ \E d \in Selections : SetSelectedDate(d)
    \/ RefreshData
    \/ FlushWatchers
    \/ ResizeTick
    \/ GoBackToDashboardList
    \/ AddPanelData
    \/ Deactivate
    \/ Tick

Spec == Init /\ [][Next]_vars

InitFilterSpec == InitFilter /\ InitPerf /\ IdleIngest

NextFilter == FilterData

SpecFilter == InitFilterSpec /\ [][NextFilter]_vars

InitIngestSpec == InitIngest /\ InitPerf /\ IdleFilter

NextIngest ==
    \/ Mount
    \/ OpenTelemetryTab
    \/ \E o \in Orgs : SwitchOrg(o)
    \/ UpdatePasscode
    \/ \E i \in 1..MaxSent, res \in {"ok", "empty", "rejected"} :
          Settle(i, res)

SpecIngest == InitIngestSpec /\ [][NextIngest]_vars

(***************************************************************************)
(* PerformanceSummary: properties (checked under Spec)                     *)
(***************************************************************************)
\* a step of the activation hook (Activate or Reload)
HookStep == ~tickPending /\ tickPending'
\* a step in which the watchers run
FlushStep == dirty # {} /\ dirty' = {}

\* C1: once the watchers have run, the URL query parameters are the
\* serialization of {selectedDate, refreshInterval, routing context}.
C1_UrlIsSerialization ==
    (active /\ dirty = {}) =>
        query = StateQuery(refreshInterval, selectedDate, query)

\* C2: every replace the watcher issues carries a folder, the literal
\* "default" when the route has none.
C2_ReplaceCarriesFolder ==
    [][FlushStep => lastReplace'.folder = FolderOrDefault(query)]_vars

\* C5 as stated: every change of refreshInterval or selectedDate issues one
\* replace of its own, and the history keeps its length.
C5_OneReplacePerChange ==
    [][FlushStep => /\ issued' = Cardinality(dirty)
                    /\ historyLen' = historyLen]_vars

\* C5 amended: the changes made within one tick are answered by exactly one
\* replace, which leaves the history length alone; nothing else happens in
\* the component before it, and no replace is issued without a change.
C5_OneReplacePerFlush ==
    [][/\ FlushStep => /\ issued' = 1
                       /\ historyLen' = historyLen
                       /\ query' = lastReplace'
       /\ (dirty # {} /\ ~FlushStep) =>
              UNCHANGED <<refreshInterval, selectedDate, query, active, dirty,
                          lastReplace, issued, historyLen>>
       /\ (lastReplace' # lastReplace \/ issued' # issued) => FlushStep]_vars

\* an activation changed both refs and one replace answered it
C5_Witness ==
    /\ tickPending /\ dirty = {} /\ issued = 1 /\ historyLen = 0
    /\ assigned = {"refreshInterval", "selectedDate"}
    /\ refreshInterval = 30 /\ selectedDate = Relative(15)
    /\ lastReplace = query

\* C6: the parameters the watcher wrote for a state with a selection, fed to
\* the hook of a fresh instance, give the refreshInterval and selectedDate
\* back.
C6_RoundTrip ==
    [][(/\ active /\ HookStep
        /\ selectedDate # UndefinedSel
        /\ query = StateQuery(refreshInterval, selectedDate, query))
       => /\ refreshInterval' = refreshInterval
          /\ selectedDate' = selectedDate]_vars

\* a fresh instance read 60 seconds and an absolute range back from the URL
\* the watcher had written
C6_Witness ==
    /\ active /\ tickPending
    /\ currentDurationSelectionObj = EmptyObj
    /\ issued = 1 /\ lastReplace = query
    /\ query = StateQuery(refreshInterval, selectedDate, query)
    /\ refreshInterval = 60 /\ selectedDate = Absolute(1, 2)

\* C8 as stated: the hook assigns refreshInterval iff the refresh key is
\* present, and selectedDate iff period is present or both to and from are.
C8_AssignedIffPresent ==
    [][HookStep =>
         /\ ("refreshInterval" \in assigned') <=> (query'.refresh # UndefTok)
         /\ ("selectedDate" \in assigned') <=>
               (\/ query'.period # UndefTok
                \/ (query'.to # UndefTok /\ query'.from # UndefTok))]_vars

\* C8 amended: the hook assigns refreshInterval iff refresh is present and
\* not empty, selectedDate iff period is, or both to and from are, present
\* and not empty; otherwise the ref keeps its value; and the resize event is
\* dispatched once per activation, after the watchers and the tick.
C8_AssignedIffTruthy ==
    [][/\ HookStep =>
            LET p == query'
                r0 == IF active THEN 0 ELSE refreshInterval
                s0 == IF active THEN UndefinedSel ELSE selectedDate
                date == Truthy(p.period)
                        \/ (Truthy(p.to) /\ Truthy(p.from))
            IN /\ ("refreshInterval" \in assigned') <=> Truthy(p.refresh)
               /\ refreshInterval' = IF Truthy(p.refresh)
                                     THEN parseDuration(p.refresh) ELSE r0
               /\ ("selectedDate" \in assigned') <=> date
               /\ selectedDate' = IF date
                                  THEN getDurationObjectFromParams(p) ELSE s0
               /\ resizes' = 0
       /\ (resizes' # resizes /\ ~HookStep) =>
              /\ tickPending /\ ~tickPending' /\ dirty = {}
              /\ resizes' = resizes + 1
       /\ (tickPending /\ ~tickPending') => resizes' = 1]_vars

\* the instance, kept alive with 30 seconds, was activated with ?refresh=
\* and a period: the interval stayed, the selection was assigned
C8_Witness ==
    /\ tickPending /\ resizes = 0
    /\ query.refresh = EmptyTok /\ query.period = <<15, "m">>
    /\ assigned = {"selectedDate"}
    /\ refreshInterval = 30 /\ selectedDate = Relative(15)

\* C9: once the watchers have run, currentDurationSelectionObj is the
\* current selectedDate and currentTimeObj is the consumable time of that
\* selection (computed at some moment up to now), also after refreshData.
C9_TimeOfCurrentSelection ==
    (dirty = {} /\ selectedDate # UndefinedSel) =>
        /\ currentDurationSelectionObj = selectedDate
        /\ \E t \in 0..now :
              currentTimeObj = getConsumableDateTime(selectedDate, t)

\* the selection was changed from 15 to 30 minutes and the time recomputed
\* at clock 1
C9_Witness ==
    /\ dirty = {} /\ now = 1
    /\ selectedDate = Relative(30)
    /\ lastReplace.period = <<30, "m">>
    /\ currentTimeObj = getConsumableDateTime(Relative(30), 1)

(***************************************************************************)
(* IngestTraces: properties (checked under SpecIngest)                     *)
(***************************************************************************)
\* a step in which a response is handled; delivered' describes it
SettleStep == Len(pending') < Len(pending)

\* C3: an answer with an empty token, to the fetch or to the reset, produces
\* the negative notification "API Key not found.", dispatches nothing and
\* leaves the stored passcode and currentOrgIdentifier alone.
C3_EmptyToken ==
    [][(SettleStep /\ delivered'.res = "empty") =>
          /\ notifs' = Append(notifs, NotFoundNote)
          /\ NotFoundNote.type = "negative"
          /\ dispatched' = dispatched
          /\ passcode' = passcode
          /\ currentOrgIdentifier' = currentOrgIdentifier]_vars

\* a reset answered with an empty token after a passcode had been stored
C3_Witness ==
    /\ delivered = [op |-> "update", org |-> "orgB", res |-> "empty"]
    /\ passcode = "orgB" /\ dispatched = 1
    /\ Len(notifs) > 0 /\ notifs[Len(notifs)] = NotFoundNote

\* C4: every rejected call, fetch or reset, produces exactly one negative
\* notification with the fixed timeout, is not issued again and leaves the
\* stored passcode alone.
C4_RejectionNotified ==
    [][(SettleStep /\ delivered'.res = "rejected") =>
          /\ Len(notifs') = Len(notifs) + 1
          /\ notifs'[Len(notifs')].type = "negative"
          /\ notifs'[Len(notifs')].timeout = NotifyTimeout
          /\ sent' = sent
          /\ Len(pending') = Len(pending) - 1
          /\ passcode' = passcode]_vars

\* C10: the stored passcode is that of the organization recorded in
\* currentOrgIdentifier.
C10_PasscodeOfRecordedOrg ==
    passcode # NoPasscode => passcode = currentOrgIdentifier

(***************************************************************************)
(* filterData: properties (checked under SpecFilter)                       *)
(***************************************************************************)
\* two characters that differ at most in case
SameLetter(c, d) ==
    \/ c = d
    \/ {c, d} = {"a", "A"}

\* name contains ts, case ignored: there is an offset at which every
\* character of ts matches
ContainsIgnoringCase(name, ts) ==
    \E off \in 0..(Len(name) - Len(ts)) :
        \A j \in 1..Len(ts) : SameLetter(name[off + j], ts[j])

\* C7: filterData returns exactly the rows whose name contains the query,
\* case ignored, in their order, none added or repeated; the empty query
\* returns every row.
C7_FilterIsSubsequence ==
    done =>
        /\ filtered = SelectSeq(rows,
                          LAMBDA r : ContainsIgnoringCase(r.name, terms))
        /\ (terms = <<>> => filtered = rows)

\* the second of two rows matches the query in the other case
C7_Witness ==
    /\ done
    /\ rows = <<[name |-> <<"b", "b">>], [name |-> <<"b", "A">>]>>
    /\ terms = <<"b", "a">>
    /\ filtered = <<[name |-> <<"b", "A">>]>>

=============================================================================
